---------------------------- MODULE Spec2Model ----------------------------
(***************************************************************************)
(* A state-machine model of prep/parser.py (class Parser): the batch run   *)
(* parse_all_patients, the per-Study loop parse_patient and the quality    *)
(* gate check_by_intensity.                                                *)
(*                                                                         *)
(* Strings are sequences of tokens (a token is a character or an           *)
(* indivisible chunk of characters); string concatenation is \o.  Paths    *)
(* are strings built by join, which puts a "/" token between components.   *)
(***************************************************************************)
EXTENDS Integers, Sequences, FiniteSets, TLC

(***************************************************************************)
(* Bounds of the model.                                                    *)
(***************************************************************************)
\* rows of the link table
MaxStudies == 2
\* annotation files in one i-contours directory
MaxFiles == 2
\* annotation files enumerated over the whole run
MaxTotal == 2
\* pixels of an image handed to check_by_intensity
MaxPixels == 3

(***************************************************************************)
(* String helpers: what str.split, int(), str() and str.replace do.        *)
(***************************************************************************)
Digits == <<"0", "1", "2", "3", "4", "5", "6", "7", "8", "9">>

IsDigit(c) == \E i \in 1..10 : Digits[i] = c

DigitVal(c) == (CHOOSE i \in 1..10 : Digits[i] = c) - 1

\* s.split(sep): the fields between the separators, empty fields kept
RECURSIVE SplitAcc(_, _, _, _, _)
SplitAcc(s, sep, i, cur, acc) ==
    IF i > Len(s) THEN Append(acc, cur)
    ELSE IF s[i] = sep THEN SplitAcc(s, sep, i + 1, <<>>, Append(acc, cur))
    ELSE SplitAcc(s, sep, i + 1, Append(cur, s[i]), acc)

split(s, sep) == SplitAcc(s, sep, 1, <<>>, <<>>)

RECURSIVE DigitsValue(_)
DigitsValue(f) ==
    IF f = <<>> THEN 0
    ELSE 10 * DigitsValue(SubSeq(f, 1, Len(f) - 1)) + DigitVal(f[Len(f)])

\* int(f): the decimal value of a non-empty all-digit field, ValueError otherwise
int(f) ==
    IF f # <<>> /\ \A i \in 1..Len(f) : IsDigit(f[i])
    THEN [ok |-> TRUE, val |-> DigitsValue(f)]
    ELSE [ok |-> FALSE, val |-> 0]

\* str(n) for n >= 0: decimal digits, no leading zeros
RECURSIVE str(_)
str(n) ==
    IF n < 10 THEN <<Digits[n + 1]>>
    ELSE str(n \div 10) \o <<Digits[(n % 10) + 1]>>

\* s.replace(old, new) for a one-token old
replace(s, old, new) == [i \in 1..Len(s) |-> IF s[i] = old THEN new ELSE s[i]]

\* os.path.join
RECURSIVE join(_)
join(parts) ==
    IF Len(parts) = 1 THEN parts[1]
    ELSE join(SubSeq(parts, 1, Len(parts) - 1)) \o <<"/">> \o parts[Len(parts)]

\* the last component of a path
RECURSIVE basename(_)
basename(p) ==
    IF p = <<>> \/ p[Len(p)] = "/" THEN <<>>
    ELSE Append(basename(SubSeq(p, 1, Len(p) - 1)), p[Len(p)])

\* truth value of a Python list
Truthy(lst) == Len(lst) > 0

(***************************************************************************)
(* Parser.__init__: the paths of the data set.                             *)
(***************************************************************************)
root_dir == <<"data">>
dicom_dir == <<"dicoms">>
contour_dir == <<"contourfiles">>
processed_dir == <<"processed">>

img_root_dir == join(<<root_dir, dicom_dir>>)
target_root_dir == join(<<root_dir, contour_dir>>)
img_dir == join(<<processed_dir, <<"images">>, <<"0">>>>)
i_msk_dir == join(<<processed_dir, <<"i_masks">>, <<"0">>>>)
o_msk_dir == join(<<processed_dir, <<"o_masks">>, <<"0">>>>)

\* row k of the link table (pd.read_csv of the linkfile)
LinkRow(k) == [patient_id |-> <<"SCD">> \o str(k), original_id |-> <<"SC-HF-I-">> \o str(k)]

LinkTable(n) == [k \in 1..n |-> LinkRow(k)]

(***************************************************************************)
(* The annotation file names a directory listing may hold.                 *)
(***************************************************************************)
IName(series, slice) ==
    <<"IM", "-">> \o series \o <<"-">> \o slice \o <<"-", "icontour", "-", "manual", ".txt">>

\* IM-0001-0023-icontour-manual.txt
FN23 == IName(<<"0", "0", "0", "1">>, <<"0", "0", "2", "3">>)
\* IM-0001-0200-icontour-manual.txt
FN200 == IName(<<"0", "0", "0", "1">>, <<"0", "2", "0", "0">>)
\* IM-0002-023-icontour-manual.txt: the slice index of FN23 again
FN23b == IName(<<"0", "0", "0", "2">>, <<"0", "2", "3">>)
\* IM-0001-icontour-manual.txt: the third field is not an integer
FNnoint == <<"IM", "-", "0", "0", "0", "1", "-", "icontour", "-", "manual", ".txt">>
\* IM-0001.txt: fewer than three fields
FNshort == <<"IM", "-", "0", "0", "0", "1", ".txt">>

FNames == {FN23, FN200, FN23b, FNnoint, FNshort}

\* what os.listdir may return: distinct names in arbitrary order
AllListings ==
    {l \in UNION {[1..n -> FNames] : n \in 0..MaxFiles} :
        \A a, b \in 1..Len(l) : a # b => l[a] # l[b]}

Listings(maxlen) == {l \in AllListings : Len(l) <= maxlen}

(***************************************************************************)
(* Files on disk, as the collaborators of parsing.py see them.             *)
(***************************************************************************)
\* a slice image <slice>.dcm of the Study's dicom directory
DicomStates == {"absent", "present"}
\* an inner annotation file (it was listed, so it exists)
InnerStates == {"empty", "poly", "malformed"}
\* the derived outer annotation file
OuterStates == {"missing", "empty", "poly", "malformed"}

\* the vertices of a well-formed non-empty annotation file
Polygon == <<<<1, 1>>, <<3, 1>>, <<3, 3>>>>

\* parsing.parse_dicom_file: a missing file raises FileNotFoundError
parse_dicom_file(file) ==
    IF file = "absent" THEN [exc |-> "FileNotFoundError"] ELSE [exc |-> "none"]

\* parsing.parse_contour_file: one vertex per line; an empty or absent file
\* gives no vertices, an unparseable line raises
parse_contour_file(file) ==
    CASE file = "poly" -> [exc |-> "none", coords |-> Polygon]
      [] file = "malformed" -> [exc |-> "ValueError", coords |-> <<>>]
      [] OTHER -> [exc |-> "none", coords |-> <<>>]

(***************************************************************************)
(* parse_patient: the steps of one iteration of its loop.                  *)
(***************************************************************************)
NoExc == [type |-> "none", line |-> 0]

\* line 78: int(icontour_name.split('-')[2])
slice_num(icontour_name) ==
    LET fields == split(icontour_name, "-")
    IN  IF Len(fields) < 3 THEN [exc |-> "IndexError", val |-> 0]
        ELSE IF ~int(fields[3]).ok THEN [exc |-> "ValueError", val |-> 0]
        ELSE [exc |-> "none", val |-> int(fields[3]).val]

\* slice_num of every file name of the model, evaluated once
slice_num_of == [f \in FNames |-> slice_num(f)]

\* a faulty variant of dicom_name: the index padded with zeros to four digits
dicom_name_padded(n) ==
    [i \in 1..(4 - Len(str(n))) |-> "0"] \o str(n) \o <<".dcm">>

\* line 79
dicom_name(n) == str(n) \o <<".dcm">>

\* line 80
ocontour_name(icontour_name) == replace(icontour_name, "icontour", "ocontour")

\* line 82: the image path handed to parse_dicom_file
dicom_path(dicom_id, n) == join(<<img_root_dir, dicom_id, dicom_name(n)>>)

\* line 85
img_dst(dicom_id, n) == join(<<img_dir, dicom_id \o <<"-">> \o str(n) \o <<".jpeg">>>>)

\* line 86
i_mask_dst(dicom_id, n) == join(<<i_msk_dir, dicom_id \o <<"-">> \o str(n) \o <<".jpeg">>>>)

\* line 97
o_mask_dst(dicom_id, n) == join(<<o_msk_dir, dicom_id \o <<"-">> \o str(n) \o <<".jpeg">>>>)

\* lines 87 and 94: the path of the inner annotation file
i_contour_path(contour_id, icontour_name) ==
    join(<<target_root_dir, contour_id, <<"i-contours">>, icontour_name>>)

\* line 88: the path of the outer annotation file
o_contour_path(contour_id, icontour_name) ==
    join(<<target_root_dir, contour_id, <<"o-contours">>, ocontour_name(icontour_name)>>)

\* a faulty variant of on_image_not_found: the loop is left
on_image_not_found_break == "break"

\* lines 83-84: what the loop does when the image is not found
on_image_not_found == "continue"

\* the default of the check_mask parameter: lambda mask, image: True
default_check_mask == TRUE

\* line 90: check_mask(i_mask, image); a caller's predicate may give either verdict
check_mask_call(mode, verdict) == IF mode = "default" THEN default_check_mask ELSE verdict

\* lines 91-92: the files saved when the inner mask is accepted
accept_saves(dicom_id, n) == {img_dst(dicom_id, n), i_mask_dst(dicom_id, n)}

\* a faulty variant of reject_appends: the rejection is not recorded
reject_appends_nothing(contour_id, icontour_name) == <<>>

\* lines 93-94: the entries appended when the inner mask is rejected
reject_appends(contour_id, icontour_name) == <<i_contour_path(contour_id, icontour_name)>>

\* a faulty variant of outer_saves: the outer mask is saved whatever was parsed
outer_saves_always(o_contour, dicom_id, n) == {o_mask_dst(dicom_id, n)}

\* lines 95-98: the file saved for the outer contour
outer_saves(o_contour, dicom_id, n) ==
    IF Truthy(o_contour) THEN {o_mask_dst(dicom_id, n)} ELSE {}

\* The outcome of one iteration: how control leaves it (ctl), the exception
\* raised, the files saved, the entries appended to to_check_masks, and
\* which inputs the iteration looked at (read, dcm, icf, ocf, gate).
Outcome(ctl, exc, saved, appended, read, dcm, icf, ocf, gate) ==
    [ctl |-> ctl, exc |-> exc, saved |-> saved, appended |-> appended,
     read |-> read, dcm |-> dcm, icf |-> icf, ocf |-> ocf, gate |-> gate]

\* lines 77-98: one iteration, for an annotation file name and the state of
\* the three files it refers to
loop_body(dicom_id, contour_id, icontour_name, mode, dcm, icf, ocf, verdict) ==
    LET sn == slice_num_of[icontour_name]
        n == sn.val
        read == dicom_path(dicom_id, n)
        i_contour == parse_contour_file(icf)
        o_contour == parse_contour_file(ocf)
        accepted == check_mask_call(mode, verdict)
    IN  IF sn.exc # "none"
        THEN Outcome("raise", [type |-> sn.exc, line |-> 78], {}, <<>>,
                     <<>>, "unread", "unread", "unread", "unreached")
        ELSE IF parse_dicom_file(dcm).exc = "FileNotFoundError"
        THEN Outcome(on_image_not_found, NoExc, {}, <<>>,
                     read, dcm, "unread", "unread", "unreached")
        ELSE IF i_contour.exc # "none"
        THEN Outcome("raise", [type |-> i_contour.exc, line |-> 87], {}, <<>>,
                     read, dcm, icf, "unread", "unreached")
        ELSE IF o_contour.exc # "none"
        THEN Outcome("raise", [type |-> o_contour.exc, line |-> 88], {}, <<>>,
                     read, dcm, "parsed", ocf, "unreached")
        ELSE Outcome("next", NoExc,
                     (IF accepted THEN accept_saves(dicom_id, n) ELSE {})
                        \cup outer_saves(o_contour.coords, dicom_id, n),
                     IF accepted THEN <<>> ELSE reject_appends(contour_id, icontour_name),
                     read, dcm, "parsed", ocf,
                     IF accepted THEN "accept" ELSE "reject")

\* the check_mask arguments of the model: the default, or a caller's predicate
Modes == {"default", "custom"}

\* a faulty variant of extend: the new entries are put in front
extend_in_front(lst, more) == more \o lst

\* line 55: masks_to_check.extend(to_check)
extend(lst, more) == lst \o more

(***************************************************************************)
(* The state of a run.                                                     *)
(***************************************************************************)
VARIABLES
    pc,                \* "idle", "rows", "slices", "done", "raised", "gate"
    linkfile,          \* self.linkfile
    check_mask,        \* the check_mask argument: "default" or "custom"
    outdirs,           \* the output directories that exist
    files,             \* the paths written under the output directories
    row,               \* the link-table row the run is at
    masks_to_check,    \* parse_all_patients' list
    i_contour_fnames,  \* parse_patient's directory listing
    pos,               \* the position of the loop in the listing
    to_check_masks,    \* parse_patient's list
    exc,               \* the exception that ended the run
    result,            \* the value parse_all_patients returned
    log,               \* history: the outcome of each iteration of this Study
    returned,          \* history: the list each parse_patient call returned
    nlisted,           \* history: annotation files enumerated so far
    g_image, g_mask, g_thresh, g_out   \* check_by_intensity: arguments, result

run_vars == <<pc, linkfile, check_mask, outdirs, files, row, masks_to_check,
              i_contour_fnames, pos, to_check_masks, exc, result, log,
              returned, nlisted>>
gate_vars == <<g_image, g_mask, g_thresh, g_out>>
vars == <<run_vars, gate_vars>>

\* the state after Parser(...) is constructed, before any call
RunInit ==
    /\ pc = "idle"
    /\ linkfile \in {LinkTable(n) : n \in 0..MaxStudies}
    /\ check_mask = "default"
    /\ outdirs = {}
    /\ files = {}
    /\ row = 0
    /\ masks_to_check = <<>>
    /\ i_contour_fnames = <<>>
    /\ pos = 0
    /\ to_check_masks = <<>>
    /\ exc = NoExc
    /\ result = <<>>
    /\ log = <<>>
    /\ returned = <<>>
    /\ nlisted = 0

GateIdle ==
    /\ g_image = <<0>>
    /\ g_mask = <<FALSE>>
    /\ g_thresh = <<1, 10>>
    /\ g_out = "unused"

Init == RunInit /\ GateIdle

\* lines 37-50: parse_all_patients is called; the output directories are made
ParseAllPatients_Call ==
    /\ pc = "idle"
    /\ \E mode \in Modes : check_mask' = mode
    /\ masks_to_check' = <<>>
    /\ outdirs' = outdirs \cup {img_dir, i_msk_dir, o_msk_dir}
    /\ row' = 1
    /\ pc' = "rows"
    /\ UNCHANGED <<linkfile, files, i_contour_fnames, pos, to_check_masks, exc,
                   result, log, returned, nlisted, gate_vars>>

\* lines 51-54 and 75-76: parse_patient is called for the next row and lists
\* the Study's i-contours directory
ParsePatient_ListDir ==
    /\ pc = "rows"
    /\ row <= Len(linkfile)
    /\ \E l \in Listings(MaxTotal - nlisted) :
          /\ i_contour_fnames' = l
          /\ nlisted' = nlisted + Len(l)
    /\ to_check_masks' = <<>>
    /\ pos' = 1
    /\ log' = <<>>
    /\ pc' = "slices"
    /\ UNCHANGED <<linkfile, check_mask, outdirs, files, row, masks_to_check, exc,
                   result, returned, gate_vars>>

\* line 75: the Study's i-contours directory does not exist; listdir raises,
\* and nothing between it and the caller of parse_all_patients catches
ParsePatient_ListDirMissing ==
    /\ pc = "rows"
    /\ row <= Len(linkfile)
    /\ exc' = [type |-> "FileNotFoundError", line |-> 75]
    /\ pc' = "raised"
    /\ UNCHANGED <<linkfile, check_mask, outdirs, files, row, masks_to_check,
                   i_contour_fnames, pos, to_check_masks, result, log, returned,
                   nlisted, gate_vars>>

\* lines 77-98: one iteration of the loop over the listing
ParsePatient_Slice ==
    /\ pc = "slices"
    /\ pos <= Len(i_contour_fnames)
    /\ \E dcm \in DicomStates, icf \in InnerStates, ocf \in OuterStates, verdict \in BOOLEAN :
          LET r == loop_body(linkfile[row].patient_id, linkfile[row].original_id,
                             i_contour_fnames[pos], check_mask, dcm, icf, ocf, verdict)
          IN  /\ log' = Append(log, [name |-> i_contour_fnames[pos], out |-> r])
              /\ files' = files \cup r.saved
              /\ to_check_masks' = to_check_masks \o r.appended
              /\ pos' = CASE r.ctl = "next" -> pos + 1
                          [] r.ctl = "continue" -> pos + 1
                          [] r.ctl = "break" -> Len(i_contour_fnames) + 1
                          [] OTHER -> pos
              /\ pc' = IF r.ctl = "raise" THEN "raised" ELSE pc
              /\ exc' = r.exc
    /\ UNCHANGED <<linkfile, check_mask, outdirs, row, masks_to_check,
                   i_contour_fnames, result, returned, nlisted, gate_vars>>

\* lines 99 and 55: parse_patient returns its list, parse_all_patients extends
\* its own with it and moves to the next row
ParsePatient_Return ==
    /\ pc = "slices"
    /\ pos > Len(i_contour_fnames)
    /\ masks_to_check' = extend(masks_to_check, to_check_masks)
    /\ returned' = Append(returned, to_check_masks)
    /\ row' = row + 1
    /\ pc' = "rows"
    /\ i_contour_fnames' = <<>>
    /\ pos' = 0
    /\ to_check_masks' = <<>>
    /\ log' = <<>>
    /\ UNCHANGED <<linkfile, check_mask, outdirs, files, exc, result, nlisted, gate_vars>>

\* line 56: the link table is exhausted; parse_all_patients returns
ParseAllPatients_Return ==
    /\ pc = "rows"
    /\ row > Len(linkfile)
    /\ result' = masks_to_check
    /\ pc' = "done"
    /\ UNCHANGED <<linkfile, check_mask, outdirs, files, row, masks_to_check,
                   i_contour_fnames, pos, to_check_masks, exc, log, returned,
                   nlisted, gate_vars>>

Next ==
    \/ ParseAllPatients_Call
    \/ ParsePatient_ListDir
    \/ ParsePatient_ListDirMissing
    \/ ParsePatient_Slice
    \/ ParsePatient_Return
    \/ ParseAllPatients_Return

Spec == Init /\ [][Next]_vars

(***************************************************************************)
(* check_by_intensity.  An image is the row-major sequence of its pixels,  *)
(* a mask the sequence of its booleans.  A float is a record: not a        *)
(* number ("nan"), an infinity ("inf", "-inf") or the fraction num/den     *)
(* with den > 0 ("fin").                                                   *)
(***************************************************************************)
PixelValues == {0, 1, 20}

\* intensity_thresh as a fraction <<num, den>>; the default is 0.1
Thresholds == {<<1, 10>>, <<1, 2>>}

Images == UNION {[1..n -> PixelValues] : n \in 1..MaxPixels}

Float(kind, num, den) == [kind |-> kind, num |-> num, den |-> den]

NaN == Float("nan", 0, 1)

\* image[mask]: the pixels the mask selects, in order
RECURSIVE Select(_, _)
Select(image, mask) ==
    IF image = <<>> THEN <<>>
    ELSE LET n == Len(image)
             rest == Select(SubSeq(image, 1, n - 1), SubSeq(mask, 1, n - 1))
         IN  IF mask[n] THEN Append(rest, image[n]) ELSE rest

\* the values of a sequence in ascending order
RECURSIVE Sorted(_)
Sorted(q) ==
    IF q = <<>> THEN <<>>
    ELSE LET i == CHOOSE k \in 1..Len(q) : \A m \in 1..Len(q) : q[k] <= q[m]
         IN  <<q[i]>> \o Sorted(SubSeq(q, 1, i - 1) \o SubSeq(q, i + 1, Len(q)))

\* np.median: nan for an empty selection (numpy warns and does not raise),
\* the middle value, or the mean of the two middle values
median(q) ==
    IF q = <<>> THEN NaN
    ELSE LET srt == Sorted(q)
             n == Len(q)
         IN  IF n % 2 = 1 THEN Float("fin", srt[(n + 1) \div 2], 1)
             ELSE Float("fin", srt[n \div 2] + srt[(n \div 2) + 1], 2)

\* image.max()
RECURSIVE max(_)
max(image) ==
    IF Len(image) = 1 THEN image[1]
    ELSE LET m == max(SubSeq(image, 1, Len(image) - 1))
         IN  IF image[Len(image)] > m THEN image[Len(image)] ELSE m

\* float division by a numpy integer: dividing by zero gives nan or an
\* infinity (numpy warns and does not raise)
divide(x, m) ==
    CASE x.kind = "nan" -> NaN
      [] x.kind = "fin" /\ m = 0 /\ x.num = 0 -> NaN
      [] x.kind = "fin" /\ m = 0 /\ x.num > 0 -> Float("inf", 0, 1)
      [] x.kind = "fin" /\ m = 0 /\ x.num < 0 -> Float("-inf", 0, 1)
      [] x.kind = "fin" /\ m > 0 -> Float("fin", x.num, x.den * m)
      [] x.kind = "fin" /\ m < 0 -> Float("fin", -x.num, x.den * (-m))

\* a faulty variant of greater: written as "not <=", which is true of nan
greater_as_not_le(x, t) ==
    ~ CASE x.kind = "nan" -> FALSE
        [] x.kind = "inf" -> FALSE
        [] x.kind = "-inf" -> TRUE
        [] OTHER -> x.num * t[2] <= t[1] * x.den

\* line 113: intensity_normalized > intensity_thresh; every comparison with
\* nan is false
greater(x, t) ==
    CASE x.kind = "nan" -> FALSE
      [] x.kind = "inf" -> TRUE
      [] x.kind = "-inf" -> FALSE
      [] OTHER -> x.num * t[2] > t[1] * x.den

\* lines 112-113
check_by_intensity(mask, image, intensity_thresh) ==
    LET intensity_normalized == divide(median(Select(image, mask)), max(image))
    IN  IF greater(intensity_normalized, intensity_thresh) THEN "True" ELSE "False"

\* the run is not in use while the gate is examined on its own
RunParked ==
    /\ pc = "gate"
    /\ linkfile = <<>>
    /\ check_mask = "default"
    /\ outdirs = {}
    /\ files = {}
    /\ row = 0
    /\ masks_to_check = <<>>
    /\ i_contour_fnames = <<>>
    /\ pos = 0
    /\ to_check_masks = <<>>
    /\ exc = NoExc
    /\ result = <<>>
    /\ log = <<>>
    /\ returned = <<>>
    /\ nlisted = 0

\* any image, any mask of its shape, any threshold of the model
GateInit ==
    /\ RunParked
    /\ g_image \in Images
    /\ g_mask \in [1..Len(g_image) -> BOOLEAN]
    /\ g_thresh \in Thresholds
    /\ g_out = "pending"

\* check_by_intensity(mask, image, intensity_thresh) is called and returns
CheckByIntensity ==
    /\ g_out = "pending"
    /\ g_out' = check_by_intensity(g_mask, g_image, g_thresh)
    /\ UNCHANGED <<run_vars, g_image, g_mask, g_thresh>>

GateNext == CheckByIntensity

GateSpec == GateInit /\ [][GateNext]_vars

(***************************************************************************)
(* Properties.  They are stated over the history of the current Study      *)
(* (log), the output files and the lists of the run, with the names the    *)
(* statements use written out again rather than taken from the loop.       *)
(***************************************************************************)
Range(q) == {q[i] : i \in DOMAIN q}

\* path p lies in directory dir
InDir(p, dir) == Len(p) > Len(dir) + 1 /\ SubSeq(p, 1, Len(dir) + 1) = dir \o <<"/">>

\* a field without its leading zeros (one digit is always kept)
RECURSIVE StripZeros(_)
StripZeros(f) == IF Len(f) > 1 /\ f[1] = "0" THEN StripZeros(Tail(f)) ELSE f

WellFormed == {f \in FNames : slice_num_of[f].exc = "none"}

\* <slice_index> as text: the third '-'-delimited field, leading zeros removed
IndexText == [f \in WellFormed |-> StripZeros(split(f, "-")[3])]

\* <image_set_id>-<slice_index>.jpeg for row k and annotation file f
CanonName == [k \in 1..MaxStudies, f \in WellFormed |->
                 LinkRow(k).patient_id \o <<"-">> \o IndexText[f] \o <<".jpeg">>]

\* <contour_dir>/<annotation_set_id>/i-contours/<filename>
InnerPath == [k \in 1..MaxStudies, f \in FNames |->
                 target_root_dir \o <<"/">> \o LinkRow(k).original_id
                     \o <<"/", "i-contours", "/">> \o f]

InImages(k, f) == img_dir \o <<"/">> \o CanonName[k, f]
InIMasks(k, f) == i_msk_dir \o <<"/">> \o CanonName[k, f]
InOMasks(k, f) == o_msk_dir \o <<"/">> \o CanonName[k, f]

\* the iteration ran to its end or skipped, and the loop went on to the next file
WentOn(i) ==
    /\ log[i].out.ctl # "raise"
    /\ log[i].out.exc = NoExc
    /\ \/ i < Len(log)
       \/ pc = "slices" /\ pos = i + 1

\* C1: a slice whose inner mask is rejected has its inner-annotation path in
\* the rejection list and no file written: no image, no inner mask and no
\* outer mask, even when a non-empty outer contour exists.
C1_RejectedSliceWritesNothing ==
    \A i \in DOMAIN log :
        log[i].out.gate = "reject" =>
            /\ InnerPath[row, log[i].name] \in Range(to_check_masks)
            /\ log[i].out.saved = {}

C3_MissingDirectoryDoesNotEndRun ==
    ~(pc = "raised" /\ exc.type = "FileNotFoundError" /\ exc.line = 75)

\* C4: a slice whose image file does not exist is skipped: nothing is written
\* for it, its path is not in the rejection list, and the loop goes on to the
\* next annotation file of the Study.
C4_MissingImageSkipsSlice ==
    \A i \in DOMAIN log :
        log[i].out.dcm = "absent" =>
            /\ log[i].out.saved = {}
            /\ log[i].out.appended = <<>>
            /\ InnerPath[row, log[i].name] \notin Range(to_check_masks)
            /\ WentOn(i)

C4_Witness ==
    \E i \in DOMAIN log :
        /\ log[i].out.dcm = "absent"
        /\ i < Len(log)
        /\ log[i + 1].out.gate = "accept"

\* C5: an annotation file name without the expected structure is fatal to its
\* slice only: no exception from parsing the name ends the run.
C5_BadNameDoesNotEndRun ==
    ~(pc = "raised" /\ exc.type \in {"IndexError", "ValueError"} /\ exc.line = 78)

\* the paths of the rejected files of the current Study, in listing order
RECURSIVE RejectedPaths(_)
RejectedPaths(n) ==
    IF n = 0 THEN <<>>
    ELSE RejectedPaths(n - 1) \o
            (IF log[n].out.gate = "reject" THEN <<InnerPath[row, log[n].name]>> ELSE <<>>)

RECURSIVE Flatten(_)
Flatten(qs) == IF qs = <<>> THEN <<>> ELSE Flatten(SubSeq(qs, 1, Len(qs) - 1)) \o qs[Len(qs)]

RECURSIVE SumLen(_)
SumLen(qs) == IF qs = <<>> THEN 0 ELSE SumLen(SubSeq(qs, 1, Len(qs) - 1)) + Len(qs[Len(qs)])

\* C6: the list parse_all_patients returns is the concatenation, in row
\* order, of the lists parse_patient returned; its length is the sum of their
\* lengths; each list parse_patient returns holds, in order, the full paths
\* <contour_dir>/<annotation_set_id>/i-contours/<filename> of the Study's
\* rejected files.
C6_ResultIsConcatenationOfRejections ==
    /\ (pc = "slices" /\ pos > Len(i_contour_fnames)) =>
          to_check_masks = RejectedPaths(Len(log))
    /\ \A k \in DOMAIN returned : \A p \in Range(returned[k]) :
          \E f \in FNames : p = InnerPath[k, f]
    /\ pc = "done" =>
          /\ Len(returned) = Len(linkfile)
          /\ result = Flatten(returned)
          /\ Len(result) = SumLen(returned)

C6_Witness ==
    /\ pc = "done"
    /\ Len(result) = 2
    /\ Len(returned) = 2
    /\ Len(returned[1]) = 1
    /\ Len(returned[2]) = 1
    /\ result[1] # result[2]

\* C7: check_by_intensity returns False, and does not raise, for every mask
\* that selects no pixel, whatever the image, an all-zero image included.
C7_EmptySelectionIsRejected ==
    (g_out # "pending" /\ \A i \in DOMAIN g_mask : ~g_mask[i]) => g_out = "False"

C7_Witness ==
    /\ g_out = "False"
    /\ \A i \in DOMAIN g_mask : ~g_mask[i]
    /\ \A i \in DOMAIN g_image : g_image[i] = 0
    /\ Len(g_image) > 1

\* C8: the writes of a processed slice are all or nothing: its image together
\* with its inner mask (and its outer mask when a non-empty outer contour
\* exists), or no file at all.
C8_WritesAreAllOrNothing ==
    \A i \in DOMAIN log :
        log[i].out.ctl # "raise" =>
            \/ log[i].out.saved = {}
            \/ log[i].out.saved =
                  {InImages(row, log[i].name), InIMasks(row, log[i].name)}
                     \cup (IF log[i].out.ocf = "poly"
                           THEN {InOMasks(row, log[i].name)} ELSE {})

\* C9: an accepted slice has its image, its inner mask and, when a non-empty
\* outer contour exists, its outer mask written under the one name
\* <image_set_id>-<slice_index>.jpeg in the three directories, slice_index
\* being the third field of the annotation file name without leading zeros;
\* the image read for it is <slice_index>.dcm.
C9_AcceptedSliceUsesCanonicalName ==
    \A i \in DOMAIN log :
        log[i].out.gate = "accept" =>
            /\ log[i].name \in WellFormed
            /\ InImages(row, log[i].name) \in log[i].out.saved \cap files
            /\ InIMasks(row, log[i].name) \in log[i].out.saved \cap files
            /\ log[i].out.ocf = "poly" =>
                  InOMasks(row, log[i].name) \in log[i].out.saved \cap files
            /\ \A p \in log[i].out.saved : basename(p) = CanonName[row, log[i].name]
            /\ log[i].out.read =
                  img_root_dir \o <<"/">> \o LinkRow(row).patient_id \o <<"/">>
                     \o IndexText[log[i].name] \o <<".dcm">>

\* IM-0001-0023-icontour-manual.txt of the first Study, accepted with an
\* outer contour: SCD1-23.jpeg in all three directories, 23.dcm read
C9_Witness ==
    /\ row = 1
    /\ \E i \in DOMAIN log :
          /\ log[i].name = FN23
          /\ log[i].out.gate = "accept"
          /\ log[i].out.ocf = "poly"
          /\ log[i].out.read = <<"data", "/", "dicoms", "/", "SCD", "1", "/", "2", "3", ".dcm">>
    /\ {<<"processed", "/", d, "/", "0", "/", "SCD", "1", "-", "2", "3", ".jpeg">> :
            d \in {"images", "i_masks", "o_masks"}} \subseteq files

\* the three outcomes of an annotation file
IsSkipped(i) ==
    /\ log[i].out.dcm = "absent"
    /\ log[i].out.saved = {}
    /\ InnerPath[row, log[i].name] \notin Range(to_check_masks)

IsEmitted(i) ==
    /\ {InImages(row, log[i].name), InIMasks(row, log[i].name)} \subseteq log[i].out.saved
    /\ InnerPath[row, log[i].name] \notin Range(to_check_masks)

IsRejected(i) ==
    /\ InnerPath[row, log[i].name] \in Range(to_check_masks)
    /\ log[i].out.saved \cap {InImages(row, log[i].name), InIMasks(row, log[i].name)} = {}

\* the image/inner-mask pairs the output directories hold for the current Study
EmittedPairs ==
    {f \in WellFormed : InImages(row, f) \in files /\ InIMasks(row, f) \in files}

\* the Study is at its end, its names are well-formed with distinct slice
\* indices, and every outer annotation file the loop opened exists
RegularStudyAtEnd ==
    /\ pc = "slices"
    /\ pos > Len(i_contour_fnames)
    /\ Len(log) = Len(i_contour_fnames)
    /\ \A i \in DOMAIN log : log[i].name \in WellFormed /\ log[i].out.ocf # "missing"
    /\ \A i, j \in DOMAIN log : i # j => IndexText[log[i].name] # IndexText[log[j].name]

===========================================================================
